---- MODULE Spec2Model ----
(***************************************************************************)
(* GOG library synchronisation (class GOGLibrary) and the gogdl helpers    *)
(* runGogdlCommand / getGogdlCommand, modelled as state machines.          *)
(*                                                                         *)
(* Persisted electron-store values are plain values (a store serialises on *)
(* set and deserialises on get).  In-memory objects are values plus the    *)
(* aliasing the code creates between them (sharedInstall).                 *)
(***************************************************************************)
EXTENDS Integers, Sequences, FiniteSets, TLC

\* ------------------------------------------------------------------ bounds
PageSize == 1       \* products per catalog page served by the remote
MaxCalls == 3       \* public operations started in one behaviour

Ids == {1, 2}            \* identifiers of the titles
Paths == {"p1", "p2"}    \* install paths

\* ------------------------------------------------------------ data values
\* The install sub-structure gogToUnifiedInfo puts into a fresh record.
DefaultInstall == [install_path |-> "", version |-> "null"]

\* InstalledInfo as importGame builds it.
InstalledInfo(path) == [install_path |-> path, version |-> "1.0"]

\* folder_name reported by `gogdl info` for a title.
ToolFolder == "dir"

Min(a, b) == IF a < b THEN a ELSE b

\* The owned catalog as the remote may list it: every title at most once, in
\* whatever order the titles sort at that moment.
Catalogs ==
    {c \in UNION {[1..n -> Ids] : n \in 0..Cardinality(Ids)} :
        \A i, j \in 1..Len(c) : i # j => c[i] # c[j]}

RECURSIVE Flatten(_)
Flatten(pages) ==
    IF pages = <<>> THEN <<>> ELSE Head(pages) \o Flatten(Tail(pages))

SeqToSet(s) == {s[i] : i \in 1..Len(s)}

\* ---------------------------------------------------------------- state
VARIABLES
    \* the gogdl helpers
    cmd,             \* one call of getGogdlCommand: its inputs and its result
    run,             \* one call of runGogdlCommand: child, buffers, promises
    upd,             \* one call of listUpdateableGames: its loop and its result
    enr,             \* one call of gogToUnifiedInfo: its inputs and its result
    loop,            \* the page loop of one sync(): requests, responses, position
    scr,             \* the Settings screen: route, component state, messages
    \* persisted stores
    libGames,        \* libraryStore 'games' (<<>> also stands for "unset")
    libTotals,       \* libraryStore <<totalGames, totalMovies>>, <<>> if unset
    apiInfoCache,    \* apiInfoCache: id -> kind of cached payload
    installedStore,  \* installedGamesStore 'installed': id -> InstalledInfo
    \* GOGLibrary fields
    library,         \* this.library: id -> GameInfo
    installedGames,  \* this.installedGames: id -> InstalledInfo
    sharedInstall,   \* ids whose library[id].install IS the object installedGames[id]
    \* sync() frame
    pc,              \* position of the running sync(): idle, creds, page1, pages, merge, gamesdb, detail
    page,            \* loop variable of the page loop
    numberOfPages,
    gameApiArray,
    gamesArray,
    gamesObjects,
    games,           \* <<totalProducts, moviesCount>> of the page-1 response
    apiData,         \* apiData of the entry being enriched
    \* getInstallInfo()/importGame() frame
    gi,
    \* observation (history) variables
    net,             \* requests issued by the current (else the last) call, in order
    delivered,       \* page responses received by the current (else the last) sync()
    enriched,        \* ids passed to gogToUnifiedInfo by the current (else the last) sync()
    pageFailed,      \* page whose request failed in the current (else the last) sync(), else 0
    pre,             \* stores and maps when the current (else the last) call started
    ret,             \* how the last call ended; NoRet while a call is running
    calls            \* number of public operations started

persisted == <<libGames, libTotals, apiInfoCache, installedStore>>
memory == <<library, installedGames, sharedInstall>>
syncFrame == <<pc, page, numberOfPages, gameApiArray, gamesArray, gamesObjects, games, apiData>>
history == <<net, delivered, enriched, pageFailed, pre, ret, calls>>
libraryVars == <<persisted, memory, syncFrame, gi, history>>
tool == <<cmd, run, upd, enr, loop, scr>>
vars == <<libraryVars, tool>>

\* ------------------------------------------------------------ the remote
TotalPages(catalog) == (Len(catalog) + PageSize - 1) \div PageSize

\* GET getFilteredProducts?...&page=k answered from the catalog as it is when
\* the request arrives.
PageResponse(catalog, k) ==
    LET lo == (k - 1) * PageSize + 1
        hi == Min(k * PageSize, Len(catalog))
    IN [products |-> SubSeq(catalog, lo, hi),
        totalPages |-> TotalPages(catalog),
        totalProducts |-> Len(catalog),
        moviesCount |-> 0]

\* ------------------------------------------------------- pure functions
\* Map helpers (Map.set / Map.get on id-keyed maps).
MapSet(m, k, v) == [x \in (DOMAIN m) \cup {k} |-> IF x = k THEN v ELSE m[x]]

EmptyMap == [x \in {} |-> 0]

\* gamesArray.find(value => value.app_name == String(game.id)): index of the
\* first record with that identifier, 0 when there is none.
FindIndex(arr, id) ==
    IF \E i \in 1..Len(arr) : arr[i].app_name = id
    THEN CHOOSE i \in 1..Len(arr) :
            /\ arr[i].app_name = id
            /\ \A j \in 1..(i - 1) : arr[j].app_name # id
    ELSE 0

\* gogToUnifiedInfo(info, gamesdbData): data is the kind of gamesdbData
\* ("game" when it has a game object), detail the outcome of the fallback
\* getGamesData call ("links", "nolinks", "failed"; unused when data = "game").
gogToUnifiedInfo(id, data, detail) ==
    [app_name |-> id,
     art_square |-> IF data = "game" THEN "gamesdb"
                    ELSE IF detail = "links" THEN "boxart" ELSE "fallback",
     folder_name |-> "",
     is_installed |-> FALSE,
     install |-> DefaultInstall]

\* refreshInstalled(): the map is cleared and refilled from the store with
\* freshly deserialised objects, so no library record shares one any more.
RefreshInstalled ==
    /\ installedGames' = installedStore
    /\ sharedInstall' = {}

\* The stores and maps as a value, with what GOGUser.isLoggedIn() answered to
\* the call ("unread" when the call does not ask); pre holds the one taken
\* when a call starts.
Snapshot(session) ==
    [libGames |-> libGames, libTotals |-> libTotals, apiInfoCache |-> apiInfoCache,
     installedStore |-> installedStore, library |-> library,
     installedGames |-> installedGames, session |-> session]

NoSnapshot ==
    [libGames |-> <<>>, libTotals |-> <<>>, apiInfoCache |-> <<>>,
     installedStore |-> <<>>, library |-> <<>>, installedGames |-> <<>>,
     session |-> "unread"]

Quiet == pc = "idle" /\ gi.pc = "idle"

\* ------------------------------------------------------------- Init
NoRet == [op |-> "none", result |-> "none"]

NoGi ==
    [pc |-> "idle", appName |-> 0, caller |-> "none", path |-> "", gameData |-> <<>>,
     shared |-> FALSE, res |-> "none"]

\* Lines 131-137: a fresh GOGLibrary over empty stores, but for the titles S
\* the Installed Store holds.
InitLibrary(S) ==
    /\ libGames = <<>>
    /\ libTotals = <<>>
    /\ apiInfoCache = EmptyMap
    /\ installedStore = [id \in S |-> InstalledInfo("p1")]
    /\ library = EmptyMap
    /\ installedGames = installedStore
    /\ sharedInstall = {}
    /\ pc = "idle"
    /\ page = 0
    /\ numberOfPages = 0
    /\ gameApiArray = <<>>
    /\ gamesArray = <<>>
    /\ gamesObjects = <<>>
    /\ games = <<>>
    /\ apiData = "none"
    /\ gi = NoGi
    /\ net = <<>>
    /\ delivered = <<>>
    /\ enriched = <<>>
    /\ pageFailed = 0
    /\ pre = NoSnapshot
    /\ ret = NoRet
    /\ calls = 0

NoCmd == [pc |-> "unused", commandParts |-> <<>>, binPath |-> <<>>, out |-> <<>>]

NoRun ==
    [pc |-> "unused", commandParts |-> <<>>, binPath |-> <<>>, logFile |-> "",
     file |-> [exists |-> FALSE, text |-> <<>>], safeCommand |-> <<>>,
     stdout |-> <<>>, stderr |-> <<>>, chunks |-> 0, arrived |-> <<>>,
     events |-> <<>>,
     inner |-> [state |-> "pending", value |-> <<>>],
     outer |-> [state |-> "pending", value |-> <<>>], outcomes |-> <<>>]

NoUpd == [pc |-> "unused"]

NoEnr == [pc |-> "unused"]

NoLoop == [pc |-> "unused"]

NoScr == [pc |-> "unused"]

Init ==
    /\ \E S \in SUBSET Ids : InitLibrary(S)
    /\ cmd = NoCmd
    /\ run = NoRun
    /\ upd = NoUpd
    /\ enr = NoEnr
    /\ loop = NoLoop
    /\ scr = NoScr

\* ----------------------------------------------------------------- sync()
Request(kind, arg) == [kind |-> kind, arg |-> arg]

\* A public operation starts: the observation of the previous call is
\* replaced by a fresh one.
BeginCall(session) ==
    /\ calls < MaxCalls
    /\ calls' = calls + 1
    /\ pre' = Snapshot(session)
    /\ net' = <<>>
    /\ delivered' = <<>>
    /\ enriched' = <<>>
    /\ pageFailed' = 0

\* A call ends: it returns, resolves, rejects or throws.
EndCall(op, result) == ret' = [op |-> op, result |-> result]

\* sync() returned or rejected: its locals are gone.
EndSync(result) ==
    /\ EndCall("sync", result)
    /\ pc' = "idle"
    /\ page' = 0
    /\ numberOfPages' = 0
    /\ gameApiArray' = <<>>
    /\ gamesArray' = <<>>
    /\ gamesObjects' = <<>>
    /\ games' = <<>>
    /\ apiData' = "none"

\* A faulty variant of SessionAbsent: the session check is missing.
SessionAbsentNever(isLoggedIn) == FALSE

\* Line 140: the session check that short-circuits sync(); isLoggedIn is what
\* GOGUser.isLoggedIn() answers.
SessionAbsent(isLoggedIn) == ~isLoggedIn

\* Lines 139-147: entry of sync() up to the await of getCredentials().
SyncCall ==
    /\ UNCHANGED tool
    /\ Quiet
    /\ \E isLoggedIn \in BOOLEAN :
       /\ BeginCall(IF isLoggedIn THEN "present" ELSE "absent")
       /\ IF SessionAbsent(isLoggedIn)
          THEN /\ EndCall("sync", "no_session")
               /\ UNCHANGED <<persisted, memory, syncFrame>>
          ELSE /\ RefreshInstalled
               /\ pc' = "creds"
               /\ ret' = NoRet
               /\ UNCHANGED <<persisted, library, page, numberOfPages, gameApiArray,
                              gamesArray, gamesObjects, games, apiData>>
    /\ gi' = NoGi

\* Lines 147-161: getCredentials() resolved; without credentials sync()
\* returns, otherwise the page-1 request is issued.
SyncCredentials ==
    /\ UNCHANGED tool
    /\ pc = "creds"
    /\ \E credentials \in BOOLEAN :
        IF credentials
        THEN /\ pc' = "page1"
             /\ net' = Append(net, Request("page", 1))
             /\ UNCHANGED <<page, numberOfPages, gameApiArray, gamesArray, gamesObjects,
                            games, apiData, ret>>
        ELSE /\ EndSync("no_credentials")
             /\ UNCHANGED net
    /\ UNCHANGED <<persisted, memory, gi, delivered, enriched, pageFailed, pre, calls>>

\* Lines 191-192: the merge loop starts from an empty gamesObjects and the
\* catalog array as persisted at that moment.
StartMerge ==
    /\ pc' = "merge"
    /\ gamesObjects' = <<>>
    /\ gamesArray' = libGames

\* A faulty variant of Page1Failure: without the `if (!games) return` guard the empty
\* gameApiArray is persisted and `games.data` then throws.
Page1FailureUnguarded ==
    /\ EndSync("rejected")
    /\ libGames' = <<>>
    /\ UNCHANGED <<libTotals, apiInfoCache, installedStore, memory>>

\* Lines 162-173: the page-1 request failed; the catch logs and yields null,
\* and sync() returns.
Page1Failure ==
    /\ EndSync("page1_failed")
    /\ UNCHANGED <<persisted, memory>>

\* A faulty variant of AppendPage: the page replaces what was gathered so far.
AppendPageOverwrite(arr, products) == products

\* Line 186: products of a further page are appended to gameApiArray.
AppendPage(arr, products) == arr \o products

\* Lines 157-189, page-1 response.
SyncPage1 ==
    /\ UNCHANGED tool
    /\ pc = "page1"
    /\ \/ /\ pageFailed' = 1
          /\ Page1Failure
          /\ UNCHANGED <<net, delivered>>
       \/ \E catalog \in Catalogs : LET resp == PageResponse(catalog, 1) IN
          /\ delivered' = <<resp>>
          /\ numberOfPages' = resp.totalPages
          /\ gameApiArray' = resp.products
          /\ games' = <<resp.totalProducts, resp.moviesCount>>
          /\ IF 2 <= resp.totalPages
             THEN /\ page' = 2
                  /\ pc' = "pages"
                  /\ net' = Append(net, Request("page", 2))
                  /\ UNCHANGED <<gamesArray, gamesObjects>>
             ELSE /\ StartMerge
                  /\ UNCHANGED <<page, net>>
          /\ UNCHANGED <<persisted, memory, apiData, pageFailed, ret>>
    /\ UNCHANGED <<gi, enriched, pre, calls>>

\* A faulty variant of PageKFailure: the failure is caught as on page 1 and what was
\* gathered so far is persisted.
PageKFailureCaught ==
    /\ EndSync("page_failed")
    /\ libGames' = [i \in 1..Len(gameApiArray) |->
                        gogToUnifiedInfo(gameApiArray[i], "game", "unused")]
    /\ UNCHANGED <<libTotals, apiInfoCache, installedStore, memory>>

\* Lines 181-184: the request for a page k >= 2 failed; nothing catches it,
\* so sync() rejects.
PageKFailure ==
    /\ EndSync("rejected")
    /\ UNCHANGED <<persisted, memory>>

\* Lines 179-189, response for page `page`.
SyncPageK ==
    /\ UNCHANGED tool
    /\ pc = "pages"
    /\ \/ /\ pageFailed' = page
          /\ PageKFailure
          /\ UNCHANGED <<net, delivered>>
       \/ \E catalog \in Catalogs : LET resp == PageResponse(catalog, page) IN
          /\ delivered' = Append(delivered, resp)
          /\ gameApiArray' = AppendPage(gameApiArray, resp.products)
          /\ page' = page + 1
          /\ IF page + 1 <= numberOfPages
             THEN /\ pc' = "pages"
                  /\ net' = Append(net, Request("page", page + 1))
                  /\ UNCHANGED <<gamesArray, gamesObjects>>
             ELSE /\ StartMerge
                  /\ UNCHANGED net
          /\ UNCHANGED <<persisted, memory, numberOfPages, games, apiData, pageFailed,
                         ret>>
    /\ UNCHANGED <<gi, enriched, pre, calls>>

\* A faulty variant of Lookup: no persisted record is ever reused.
LookupNone(arr, id) == 0

\* Lines 194-196: the previously persisted record reused for an entry
\* (index into gamesArray, 0 when there is none).
Lookup(arr, id) == FindIndex(arr, id)

\* A faulty variant of Pushed: the copy carrying installed-state is pushed.
PushedCopy(unifiedObject, copyObject) == copyObject

\* Line 213: what is pushed onto gamesObjects, the array persisted later.
Pushed(unifiedObject, copyObject) == unifiedObject

\* A faulty variant of CopyObject: installed-state is not attached.
CopyObjectBare(unifiedObject, id, installed) == unifiedObject

\* Lines 214-220: the copy that carries installed-state.
CopyObject(unifiedObject, id, installed) ==
    IF id \in DOMAIN installed
    THEN [unifiedObject EXCEPT !.is_installed = TRUE, !.install = installed[id]]
    ELSE unifiedObject

\* Lines 213-221: the tail of one loop iteration.
FinishEntry(id, unifiedObject) ==
    LET copyObject == CopyObject(unifiedObject, id, installedGames) IN
    /\ gamesObjects' = Append(gamesObjects, Pushed(unifiedObject, copyObject))
    /\ library' = MapSet(library, id, copyObject)
    /\ sharedInstall' = IF id \in DOMAIN installedGames
                        THEN sharedInstall \cup {id}
                        ELSE sharedInstall \ {id}
    /\ pc' = "merge"
    /\ UNCHANGED installedGames

\* Lines 211 and 437-468: gogToUnifiedInfo is entered with gamesdbData of
\* kind data; without a game object it awaits getGamesData.
Enrich(id, data) ==
    /\ enriched' = Append(enriched, id)
    /\ apiData' = data
    /\ IF data = "game"
       THEN /\ FinishEntry(id, gogToUnifiedInfo(id, data, "unused"))
            /\ UNCHANGED net
       ELSE /\ pc' = "detail"
            /\ net' = Append(net, Request("detail", id))
            /\ UNCHANGED <<memory, gamesObjects>>

CurrentGame == gameApiArray[Len(gamesObjects) + 1]

\* Lines 193-212: one iteration of the merge loop up to its first await.
SyncMergeEntry ==
    /\ UNCHANGED tool
    /\ pc = "merge"
    /\ Len(gamesObjects) < Len(gameApiArray)
    /\ LET id == CurrentGame
           found == Lookup(gamesArray, id)
       IN IF found # 0
          THEN /\ FinishEntry(id, gamesArray[found])
               /\ UNCHANGED <<net, enriched, apiData>>
          ELSE IF id \in DOMAIN apiInfoCache
          THEN Enrich(id, apiInfoCache[id])
          ELSE /\ pc' = "gamesdb"
               /\ net' = Append(net, Request("gamesdb", id))
               /\ UNCHANGED <<memory, gamesObjects, enriched, apiData>>
    /\ UNCHANGED <<persisted, page, numberOfPages, gameApiArray, gamesArray, games,
                   gi, delivered, pageFailed, pre, ret, calls>>

\* Lines 616-633: what getGamesdbData returns as data for a response:
\* {} when the request failed, else the payload (with or without game).
GamesdbData(resp) == IF resp = "failed" THEN "empty" ELSE resp

\* Lines 204-211: getGamesdbData resolved; its data is cached and enriched.
SyncGamesdb ==
    /\ UNCHANGED tool
    /\ pc = "gamesdb"
    /\ \E resp \in {"failed", "game", "nogame"} :
        LET id == CurrentGame
            data == GamesdbData(resp)
        IN /\ apiInfoCache' = MapSet(apiInfoCache, id, data)
           /\ Enrich(id, data)
    /\ UNCHANGED <<libGames, libTotals, installedStore, page, numberOfPages,
                   gameApiArray, gamesArray, games, gi, delivered, pageFailed, pre,
                   ret, calls>>

\* Lines 457-468 and 515-527: the fallback getGamesData call resolved.
SyncDetail ==
    /\ UNCHANGED tool
    /\ pc = "detail"
    /\ \E detail \in {"links", "nolinks", "failed"} :
        FinishEntry(CurrentGame, gogToUnifiedInfo(CurrentGame, apiData, detail))
    /\ UNCHANGED <<persisted, page, numberOfPages, gameApiArray, gamesArray, games,
                   apiData, gi, net, delivered, enriched, pageFailed, pre, ret, calls>>

\* Lines 223-226: the loop is over; the catalog and the totals are persisted.
SyncFinish ==
    /\ UNCHANGED tool
    /\ pc = "merge"
    /\ Len(gamesObjects) = Len(gameApiArray)
    /\ libGames' = gamesObjects
    /\ libTotals' = games
    /\ EndSync("completed")
    /\ UNCHANGED <<apiInfoCache, installedStore, memory, gi, net, delivered, enriched,
                   pageFailed, pre, calls>>

\* ------------------------------------------------ getInstallInfo / importGame
\* Line 247 (and line 341, where importGame awaits it): entry of
\* getInstallInfo() up to the await of getCredentials().
GetInstallInfoCall ==
    /\ UNCHANGED tool
    /\ Quiet
    /\ BeginCall("unread")
    /\ \E appName \in Ids :
        gi' = [NoGi EXCEPT !.pc = "creds", !.appName = appName, !.caller = "getInstallInfo"]
    /\ ret' = NoRet
    /\ UNCHANGED <<persisted, memory, syncFrame>>

\* Lines 335-342: importGame(data, path) evaluates getInstallInfo(data.appName)
\* while building installInfo.
ImportGameCall ==
    /\ UNCHANGED tool
    /\ Quiet
    /\ BeginCall("unread")
    /\ \E appName \in Ids, path \in Paths :
        gi' = [NoGi EXCEPT !.pc = "creds", !.appName = appName, !.caller = "importGame",
                           !.path = path]
    /\ ret' = NoRet
    /\ UNCHANGED <<persisted, memory, syncFrame>>

\* Lines 248-267: getCredentials() resolved.  Without credentials
\* getInstallInfo returns undefined, on which importGame's `.manifest` throws;
\* otherwise gameData is read from the map and gogdl is started.
GiCredentials ==
    /\ UNCHANGED tool
    /\ gi.pc = "creds"
    /\ \E credentials \in BOOLEAN :
        IF credentials
        THEN /\ gi' = [gi EXCEPT !.pc = "run",
                                 !.gameData = IF gi.appName \in DOMAIN library
                                              THEN <<library[gi.appName]>> ELSE <<>>,
                                 !.shared = gi.appName \in sharedInstall]
             /\ UNCHANGED ret
        ELSE /\ gi' = NoGi
             /\ EndCall(gi.caller,
                        IF gi.caller = "importGame" THEN "rejected" ELSE "no_credentials")
    /\ UNCHANGED <<persisted, memory, syncFrame, net, delivered, enriched, pageFailed,
                   pre, calls>>

\* A faulty variant of ParsesAsJson: any output is taken for the metadata.
ParsesAlways(out) == TRUE

\* Line 276: JSON.parse(res.stdout) succeeds only on a JSON document; the
\* error-tagged result of a failed spawn has stdout ''.
ParsesAsJson(out) == out = "json"

\* A faulty variant of WithFolder: only the changed record is written back.
WithFolderAlone(arr, idx, folder) == <<[arr[idx] EXCEPT !.folder_name = folder]>>

\* A faulty variant of WithFolder: the folder name goes into every record.
WithFolderAll(arr, idx, folder) ==
    [i \in 1..Len(arr) |-> [arr[i] EXCEPT !.folder_name = folder]]

\* Lines 277-283: the persisted array with the folder name written into the
\* record found for appName.
WithFolder(arr, idx, folder) == [arr EXCEPT ![idx].folder_name = folder]

\* Lines 349-357: the tail of importGame.
ImportTail(appName, gameData, installInfo) ==
    /\ installedGames' = MapSet(installedGames, appName, installInfo)
    /\ library' = MapSet(library, appName,
                         [gameData EXCEPT !.install = installInfo, !.is_installed = TRUE])
    /\ sharedInstall' = sharedInstall \cup {appName}
    /\ installedStore' = MapSet(installedGames, appName, installInfo)

\* Lines 267-307: runGogdlCommand resolved with out.  Every throw (parse
\* error, record missing from the persisted array, gameData undefined)
\* happens before the first write.  gameData is the object read from the map
\* at line 253, so line 284 puts that object back into the map, with the
\* install object it had then.  importGame goes on with its tail once the
\* promise of getInstallInfo has resolved; the returned frame keeps appName,
\* caller, what gogdl printed (and the path importGame was given) until the
\* next call begins.
GiRun ==
    /\ UNCHANGED tool
    /\ gi.pc = "run"
    /\ \E out \in {"spawn_error", "not_json", "json"} :
        LET appName == gi.appName
            idx == FindIndex(libGames, appName)
            over == [NoGi EXCEPT !.appName = appName, !.caller = gi.caller, !.res = out]
        IN IF ParsesAsJson(out) /\ idx # 0 /\ gi.gameData # <<>>
           THEN LET gameData == [gi.gameData[1] EXCEPT !.folder_name = ToolFolder] IN
                /\ libGames' = WithFolder(libGames, idx, ToolFolder)
                /\ library' = MapSet(library, appName, gameData)
                /\ sharedInstall' = IF gi.shared THEN sharedInstall \cup {appName}
                                    ELSE sharedInstall \ {appName}
                /\ IF gi.caller = "importGame"
                   THEN /\ gi' = [over EXCEPT !.pc = "tail", !.path = gi.path]
                        /\ UNCHANGED ret
                   ELSE /\ gi' = over
                        /\ EndCall(gi.caller, "returned")
                /\ UNCHANGED <<libTotals, apiInfoCache, installedStore, installedGames>>
           ELSE /\ gi' = over
                /\ EndCall(gi.caller, "rejected")
                /\ UNCHANGED <<persisted, memory>>
    /\ UNCHANGED <<syncFrame, net, delivered, enriched, pageFailed, pre, calls>>

\* Lines 349-357: importGame resumes after the await of getInstallInfo and
\* runs to its end without another await; it reads the map again.
ImportGameTail ==
    /\ UNCHANGED tool
    /\ gi.pc = "tail"
    /\ ImportTail(gi.appName, library[gi.appName], InstalledInfo(gi.path))
    /\ gi' = [gi EXCEPT !.pc = "idle"]
    /\ EndCall("importGame", "returned")
    /\ UNCHANGED <<libGames, libTotals, apiInfoCache, syncFrame, net, delivered,
                   enriched, pageFailed, pre, calls>>

\* Lines 321-334: changeGameInstallPath is synchronous.  It throws before
\* any write when appName is not in the installed array or not in the map.
\* The path is written into the object library[appName].install, which is
\* the installedGames entry as well when the two are shared.
ChangeGameInstallPath ==
    /\ UNCHANGED tool
    /\ Quiet
    /\ BeginCall("unread")
    /\ \E appName \in Ids, newInstallPath \in Paths :
        IF appName \in DOMAIN installedStore /\ appName \in DOMAIN library
        THEN /\ installedStore' =
                    [installedStore EXCEPT ![appName].install_path = newInstallPath]
             /\ library' = [library EXCEPT ![appName].install.install_path = newInstallPath]
             /\ installedGames' =
                    IF appName \in sharedInstall
                    THEN [installedGames EXCEPT ![appName].install_path = newInstallPath]
                    ELSE installedGames
             /\ EndCall("changeGameInstallPath", "returned")
             /\ UNCHANGED <<libGames, libTotals, apiInfoCache, sharedInstall>>
        ELSE /\ EndCall("changeGameInstallPath", "threw")
             /\ UNCHANGED <<persisted, memory>>
    /\ gi' = NoGi
    /\ UNCHANGED syncFrame

\* Lines 131-137: a new process constructs the singleton: empty library map,
\* installed map loaded from the store.  Nothing of the old process is left
\* to observe.
Restart ==
    /\ UNCHANGED tool
    /\ Quiet
    /\ library # EmptyMap
    /\ library' = EmptyMap
    /\ RefreshInstalled
    /\ ret' = NoRet
    /\ pre' = NoSnapshot
    /\ net' = <<>>
    /\ delivered' = <<>>
    /\ enriched' = <<>>
    /\ pageFailed' = 0
    /\ gi' = NoGi
    /\ UNCHANGED <<persisted, syncFrame, calls>>

Next ==
    \/ SyncCall
    \/ SyncCredentials
    \/ SyncPage1
    \/ SyncPageK
    \/ SyncMergeEntry
    \/ SyncGamesdb
    \/ SyncDetail
    \/ SyncFinish
    \/ GetInstallInfoCall
    \/ ImportGameCall
    \/ GiCredentials
    \/ GiRun
    \/ ImportGameTail
    \/ ChangeGameInstallPath
    \/ Restart

Spec == Init /\ [][Next]_vars

\* The sequences of sync() calls that complete or are aborted by a page-1
\* failure, importGame() calls and changeGameInstallPath() calls, in one
\* process: no sync() without session or credentials or with a later page
\* failing, no direct getInstallInfo(), no restart.
NextMirror ==
    \/ SyncCall /\ pc' = "creds"
    \/ SyncCredentials /\ pc' = "page1"
    \/ SyncPage1
    \/ SyncPageK /\ pageFailed' = 0
    \/ SyncMergeEntry
    \/ SyncGamesdb
    \/ SyncDetail
    \/ SyncFinish
    \/ ImportGameCall
    \/ GiCredentials
    \/ GiRun
    \/ ImportGameTail
    \/ ChangeGameInstallPath

SpecMirror == Init /\ [][NextMirror]_vars

\* ------------------------------------------------------ overlapping calls
\* Nothing in GOGLibrary keeps a second call from starting while another is
\* suspended at an await.  One sync() and one getInstallInfo() or
\* importGame() for a title of the library map, started in either order and
\* interleaved at their awaits; each runs to completion.

\* The process after a completed sync() of the catalog c with the titles S
\* installed.
InitRace ==
    /\ \E c \in Catalogs \ {<<>>}, S \in SUBSET Ids :
        /\ libGames = [i \in 1..Len(c) |-> gogToUnifiedInfo(c[i], "game", "unused")]
        /\ libTotals = <<Len(c), 0>>
        /\ apiInfoCache = [id \in SeqToSet(c) |-> "game"]
        /\ installedStore = [id \in S |-> InstalledInfo("p1")]
        /\ installedGames = installedStore
        /\ library = [id \in SeqToSet(c) |->
                          CopyObject(gogToUnifiedInfo(id, "game", "unused"), id,
                                     installedStore)]
        /\ sharedInstall = S \cap SeqToSet(c)
    /\ pc = "idle"
    /\ page = 0
    /\ numberOfPages = 0
    /\ gameApiArray = <<>>
    /\ gamesArray = <<>>
    /\ gamesObjects = <<>>
    /\ games = <<>>
    /\ apiData = "none"
    /\ gi = NoGi
    /\ net = <<>>
    /\ delivered = <<>>
    /\ enriched = <<>>
    /\ pageFailed = 0
    /\ pre = NoSnapshot
    /\ ret = NoRet
    /\ calls = 0
    /\ cmd = NoCmd
    /\ run = NoRun
    /\ upd = NoUpd
    /\ enr = NoEnr
    /\ loop = NoLoop
    /\ scr = NoScr

SyncStarted == pre.session = "present"

\* sync() is not in the middle of a stretch of code without an await: between
\* two iterations of the merge loop (pc = "merge") it does not suspend, so
\* nothing else runs there.
SyncSuspended == pc # "merge"

\* Lines 139-147 with a session: sync() starts whatever the other call is
\* doing.  refreshInstalled() replaces the objects of the installed map, so
\* the object getInstallInfo holds no longer shares one.
SyncRaceCall ==
    /\ UNCHANGED tool
    /\ pc = "idle"
    /\ ~SyncStarted
    /\ pre' = Snapshot("present")
    /\ RefreshInstalled
    /\ pc' = "creds"
    /\ gi' = [gi EXCEPT !.shared = FALSE]
    /\ UNCHANGED <<persisted, library, page, numberOfPages, gameApiArray, gamesArray,
                   gamesObjects, games, apiData, net, delivered, enriched, pageFailed,
                   ret, calls>>

\* Line 247: getInstallInfo(appName) starts for a title of the library map.
GetInstallInfoRaceCall ==
    /\ UNCHANGED tool
    /\ SyncSuspended
    /\ gi.pc = "idle"
    /\ gi.caller = "none"
    /\ \E appName \in DOMAIN library :
        gi' = [NoGi EXCEPT !.pc = "creds", !.appName = appName, !.caller = "getInstallInfo"]
    /\ UNCHANGED <<persisted, memory, syncFrame, history>>

\* Lines 335-342: importGame(data, path) starts for a title of the library map.
ImportGameRaceCall ==
    /\ UNCHANGED tool
    /\ SyncSuspended
    /\ gi.pc = "idle"
    /\ gi.caller = "none"
    /\ \E appName \in DOMAIN library, path \in Paths :
        gi' = [NoGi EXCEPT !.pc = "creds", !.appName = appName, !.caller = "importGame",
                           !.path = path]
    /\ UNCHANGED <<persisted, memory, syncFrame, history>>

NextRace ==
    \/ SyncRaceCall
    \/ SyncCredentials /\ pc' = "page1"
    \/ SyncPage1 /\ pageFailed' = 0
    \/ SyncPageK /\ pageFailed' = 0
    \/ SyncMergeEntry
    \/ SyncGamesdb
    \/ SyncDetail
    \/ SyncFinish
    \/ GetInstallInfoRaceCall
    \/ ImportGameRaceCall
    \/ SyncSuspended /\ GiCredentials /\ gi'.pc = "run"
    \/ SyncSuspended /\ GiRun /\ ret'.result # "rejected"
    \/ SyncSuspended /\ ImportGameTail

SpecRace == InitRace /\ [][NextRace]_vars

\* -------------------------------------------------------------- strings
\* A string is the sequence of its pieces, each piece a run of characters
\* that the code never looks inside; '' is <<>>. A string starts with
\* '--token' exactly when its first piece is TokenFlag.
TokenFlag == "--token"
Space == " "
Quote == "\""
Newline == "\n"
Whitespace == {Space, Newline}

\* String.prototype.startsWith for a prefix that is one piece.
StartsWith(val, prefix) == val # <<>> /\ val[1] = prefix

\* String.prototype.includes for a one-piece needle.
Includes(str, piece) == \E i \in 1..Len(str) : str[i] = piece

\* Array.prototype.join: the separator goes between the elements.
RECURSIVE JoinWith(_, _)
JoinWith(parts, sep) ==
    IF parts = <<>> THEN <<>>
    ELSE IF Len(parts) = 1 THEN parts[1]
    ELSE parts[1] \o <<sep>> \o JoinWith(Tail(parts), sep)

\* ---------------------------------------------------- getGogdlCommand()
MaxArgs == 4
Secrets == {"SECRET", "OTHER"}
TokenArgs == {<<TokenFlag, "=", v>> : v \in Secrets}
ArgPool ==
    {<<>>, <<"info">>, <<"123">>, <<"--lang=en-US">>, <<TokenFlag, "-file">>}
        \cup TokenArgs
ArgVectors == UNION {[1..n -> ArgPool] : n \in 0..MaxArgs}
BinPaths == {<<"/opt/gogdl">>, <<"/my", Space, "tools/gogdl">>}

\* A faulty variant of IsKept: only empty entries are filtered out.
IsKeptNonEmpty(val) == val # <<>>

\* Lines 780-782: the filter predicate, `val && !val.startsWith('--token')`.
IsKept(val) == val # <<>> /\ ~StartsWith(val, TokenFlag)

\* Lines 777-788; binPath is join(...Object.values(getGOGdlBin())).
getGogdlCommand(commandParts, binPath) ==
    LET parts == SelectSeq(commandParts, IsKept)
        gogdlFullPath == IF Includes(binPath, Space)
                         THEN <<Quote>> \o binPath \o <<Quote>>
                         ELSE binPath
    IN JoinWith(<<gogdlFullPath>> \o parts, Space)

InitCmd ==
    /\ InitLibrary({})
    /\ run = NoRun
    /\ upd = NoUpd
    /\ enr = NoEnr
    /\ loop = NoLoop
    /\ scr = NoScr
    /\ \E v \in ArgVectors, b \in BinPaths :
           cmd = [pc |-> "ready", commandParts |-> v, binPath |-> b, out |-> <<>>]

\* A caller formats the command line of its argument vector.
GetGogdlCommandCall ==
    /\ cmd.pc = "ready"
    /\ cmd' = [cmd EXCEPT !.pc = "done",
                          !.out = getGogdlCommand(cmd.commandParts, cmd.binPath)]
    /\ UNCHANGED <<libraryVars, run, upd, enr, loop, scr>>

NextCmd == GetGogdlCommandCall

SpecCmd == InitCmd /\ [][NextCmd]_vars

\* ---------------------------------------------------- runGogdlCommand()
MaxChunks == 2
Chunks == {<<"a">>, <<Newline, "b", Space>>}
RunVectors ==
    {<<<<"info">>, <<>>, <<TokenFlag, "=", "SECRET">>>>, <<<<"auth">>>>}
SpawnError == "spawn ENOENT"

\* String.prototype.trim.
RECURSIVE TrimStart(_)
TrimStart(str) ==
    IF str # <<>> /\ Head(str) \in Whitespace THEN TrimStart(Tail(str)) ELSE str

RECURSIVE TrimEnd(_)
TrimEnd(str) ==
    IF str # <<>> /\ str[Len(str)] \in Whitespace
    THEN TrimEnd(SubSeq(str, 1, Len(str) - 1))
    ELSE str

Trim(str) == TrimEnd(TrimStart(str))

Pending == [state |-> "pending", value |-> <<>>]

\* A promise takes the first settlement only: res and rej of a settled
\* promise do nothing.
Settle(promise, state, value) ==
    IF promise.state = "pending"
    THEN [state |-> state, value |-> <<value>>]
    ELSE promise

\* Lines 751-756: the 'close' listener resolves with the joined buffers.
OnCloseSettle(promise, stdout, stderr) ==
    Settle(promise, "fulfilled",
           [stdout |-> JoinWith(stdout, Newline), stderr |-> JoinWith(stderr, Newline)])

\* A faulty variant of OnErrorSettle: the listener resolves with empty output and the
\* error is lost.
OnErrorResolve(promise, error) ==
    Settle(promise, "fulfilled", [stdout |-> <<>>, stderr |-> <<>>])

\* Lines 757-759: the 'error' listener rejects with the error.
OnErrorSettle(promise, error) == Settle(promise, "rejected", error)

\* Lines 761-768: the promise runGogdlCommand returns, from the child's
\* promise through .then and .catch.
Chain(promise, safeCommand) ==
    IF promise.state = "fulfilled"
    THEN [state |-> "fulfilled",
          value |-> <<[stdout |-> promise.value[1].stdout,
                       stderr |-> promise.value[1].stderr,
                       fullCommand |-> safeCommand]>>]
    ELSE IF promise.state = "rejected"
    THEN [state |-> "fulfilled",
          value |-> <<[stdout |-> <<>>, stderr |-> <<>>,
                       fullCommand |-> safeCommand, error |-> promise.value[1]]>>]
    ELSE Pending

\* What the caller sees of the returned promise: every change of it.
Observed(outcomes, old, new) == IF new # old THEN Append(outcomes, new) ELSE outcomes

\* The child's promise became inner: the returned promise follows it.
Follow(inner) ==
    LET outer == IF run.outer.state = "pending"
                 THEN Chain(inner, run.safeCommand) ELSE run.outer
    IN [run EXCEPT !.inner = inner,
                   !.outer = outer,
                   !.outcomes = Observed(run.outcomes, run.outer, outer)]

InitRun ==
    /\ InitLibrary({})
    /\ cmd = NoCmd
    /\ upd = NoUpd
    /\ enr = NoEnr
    /\ loop = NoLoop
    /\ scr = NoScr
    /\ \E v \in RunVectors, b \in BinPaths, logFile \in {"", "gogdl.log"},
          file \in {[exists |-> FALSE, text |-> <<>>],
                    [exists |-> TRUE, text |-> <<"earlier">>]} :
           run = [pc |-> "ready", commandParts |-> v, binPath |-> b,
                  logFile |-> logFile, file |-> file, safeCommand |-> <<>>,
                  stdout |-> <<>>, stderr |-> <<>>, chunks |-> 0, arrived |-> <<>>,
                  events |-> <<>>,
                  inner |-> Pending, outer |-> Pending, outcomes |-> <<>>]

\* Lines 713-715: empty entries are dropped and the safe command is formatted.
RunCall ==
    /\ run.pc = "ready"
    /\ LET commandParts == SelectSeq(run.commandParts, LAMBDA n : n # <<>>)
       IN run' = [run EXCEPT !.pc = "log",
                             !.commandParts = commandParts,
                             !.safeCommand = getGogdlCommand(commandParts, run.binPath)]
    /\ UNCHANGED <<libraryVars, cmd, upd, enr, loop, scr>>

\* Lines 722-724: an existing log file is emptied; writeFileSync may throw
\* (a directory, a file that cannot be written), and the async function then
\* rejects before any process is spawned.
PrepareLog ==
    /\ run.pc = "log"
    /\ \/ /\ run.logFile # "" /\ run.file.exists
          /\ \/ run' = [run EXCEPT !.pc = "spawn", !.file.text = <<>>]
             \/ run' = [run EXCEPT
                          !.pc = "threw",
                          !.outer = [state |-> "rejected", value |-> <<"EACCES">>],
                          !.outcomes = Append(run.outcomes,
                                              [state |-> "rejected", value |-> <<"EACCES">>])]
       \/ /\ ~(run.logFile # "" /\ run.file.exists)
          /\ run' = [run EXCEPT !.pc = "spawn"]
    /\ UNCHANGED <<libraryVars, cmd, upd, enr, loop, scr>>

\* Line 727: the child is spawned and the listeners are attached.
Spawn ==
    /\ run.pc = "spawn"
    /\ run' = [run EXCEPT !.pc = "child"]
    /\ UNCHANGED <<libraryVars, cmd, upd, enr, loop, scr>>

\* A faulty variant of AppendLog: the chunk replaces the file's content.
AppendLogOverwrite(file, data) == [exists |-> TRUE, text |-> data]

\* Lines 733-738: appendFileSync(logFile, data.toString()) creates the file
\* if need be and adds the chunk, untrimmed, at its end.
AppendLog(file, data) == [exists |-> TRUE, text |-> file.text \o data]

\* Lines 732-749: a chunk arrives on a stream; it is appended to the log
\* file, if one is given, and pushed trimmed onto the stream's buffer.
OnData ==
    /\ run.pc = "child"
    /\ "close" \notin SeqToSet(run.events)
    /\ run.chunks < MaxChunks
    /\ \E stream \in {"stdout", "stderr"}, data \in Chunks :
        LET logged == IF run.logFile # "" THEN AppendLog(run.file, data) ELSE run.file
        IN run' = [run EXCEPT
                     !.chunks = @ + 1,
                     !.arrived = Append(@, [stream |-> stream, data |-> data]),
                     !.file = logged,
                     !.stdout = IF stream = "stdout" THEN Append(@, Trim(data)) ELSE @,
                     !.stderr = IF stream = "stderr" THEN Append(@, Trim(data)) ELSE @]
    /\ UNCHANGED <<libraryVars, cmd, upd, enr, loop, scr>>

\* Lines 751-756: the child's streams have closed.
OnClose ==
    /\ run.pc = "child"
    /\ "close" \notin SeqToSet(run.events)
    /\ run' = [Follow(OnCloseSettle(run.inner, run.stdout, run.stderr))
                  EXCEPT !.events = Append(run.events, "close")]
    /\ UNCHANGED <<libraryVars, cmd, upd, enr, loop, scr>>

\* Lines 757-759: the child could not be spawned, killed or sent to.
OnError ==
    /\ run.pc = "child"
    /\ "error" \notin SeqToSet(run.events)
    /\ run' = [Follow(OnErrorSettle(run.inner, SpawnError))
                  EXCEPT !.events = Append(run.events, "error")]
    /\ UNCHANGED <<libraryVars, cmd, upd, enr, loop, scr>>

NextRun ==
    \/ RunCall
    \/ PrepareLog
    \/ Spawn
    \/ OnData
    \/ OnClose
    \/ OnError

SpecRun == InitRun /\ [][NextRun]_vars

\* ------------------------------------------------- listUpdateableGames()
MaxInstalled == 2
Etags == {"e1", "e2"}

\* Lines 336-348: the record importGame() puts into the installed map for a
\* title of the given platform; the object literal has no versionEtag.
Imported(platform) == [platform |-> platform, version |-> "1.0", versionEtag |-> ""]

\* The installed records a call can find in the installed map: linux titles
\* and windows titles, the latter with or without a recorded etag ("" stands
\* for a versionEtag that was never set).
InstalledKinds ==
    {[platform |-> "linux", version |-> "1.0", versionEtag |-> ""],
     [platform |-> "windows", version |-> "1.0", versionEtag |-> ""],
     [platform |-> "windows", version |-> "1.0", versionEtag |-> "e1"]}

InstalledLists == UNION {[1..n -> InstalledKinds] : n \in 0..MaxInstalled}

\* What getProductApi(appName, ['downloads']) can resolve with: null after a
\* failed request, a body without downloads.installers, or a listing.
DownloadsResponses ==
    {[kind |-> "failed", installers |-> <<>>],
     [kind |-> "no_installers", installers |-> <<>>]}
    \cup {[kind |-> "listing", installers |-> l] :
            l \in {<<>>,
                   <<[os |-> "linux", version |-> "1.0"]>>,
                   <<[os |-> "linux", version |-> "1.1"]>>,
                   <<[os |-> "windows", version |-> "1.1"],
                     [os |-> "linux", version |-> "1.0"]>>}}

\* What the builds request can bring: a failure, or a listing of build links,
\* latest first.
BuildsResponses ==
    {[kind |-> "failed", items |-> <<>>],
     [kind |-> "listing", items |-> <<>>],
     [kind |-> "listing", items |-> <<"meta2", "meta1">>]}

RECURSIVE FirstLinux(_)
FirstLinux(installers) ==
    IF installers = <<>> THEN <<>>
    ELSE IF Head(installers).os = "linux" THEN <<Head(installers)>>
    ELSE FirstLinux(Tail(installers))

\* Lines 387-400: "false" after a failed request, whether the first linux
\* installer has the recorded version, "undefined" when none is listed, and
\* "throws" when the body has no installers to iterate.
checkForLinuxInstallerUpdate(response, version) ==
    IF response.kind = "failed" THEN "false"
    ELSE IF response.kind = "no_installers" THEN "throws"
    ELSE LET first == FirstLinux(response.installers)
         IN IF first = <<>> THEN "undefined"
            ELSE IF first[1].version = version THEN "true" ELSE "false"

\* A faulty variant of LinuxNeedsUpdate: the negation is missing.
LinuxNeedsUpdateUnnegated(same) == same = "true"

\* Lines 368-371: `!(await this.checkForLinuxInstallerUpdate(...))`.
LinuxNeedsUpdate(same) == same \in {"false", "undefined"}

\* A faulty variant of IfNoneMatch: the header is never sent.
IfNoneMatchNever(etag) == <<>>

\* Lines 411-415: the request headers, <<>> for null.
IfNoneMatch(etag) == IF etag # "" THEN <<etag>> ELSE <<>>

\* The metadata server answers a conditional request with 304 when the etag
\* sent is its current one, and with 200 otherwise.
MetaStatus(headers, serverEtag) == IF headers = <<serverEtag>> THEN 304 ELSE 200

\* Line 421: `metaResponse.status == 200`.
HasUpdate(status) == status = 200

InitUpd ==
    /\ InitLibrary({})
    /\ cmd = NoCmd
    /\ run = NoRun
    /\ enr = NoEnr
    /\ loop = NoLoop
    /\ scr = NoScr
    /\ \E installed \in InstalledLists :
           upd = [pc |-> "ready", installed |-> installed, i |-> 0, updateable |-> <<>>,
                  headers |-> <<>>, checks |-> <<>>, outcome |-> "pending"]

\* What a call has seen of one title's remote check.
Check(kind, failed, listed, url, headers, serverEtag, status) ==
    [kind |-> kind, failed |-> failed, listed |-> listed, url |-> url,
     headers |-> headers, serverEtag |-> serverEtag, status |-> status]

\* The title's check is over: its identifier is pushed or not, and the loop
\* goes on with the next title.
Checked(push, check) ==
    [upd EXCEPT !.pc = "loop",
                !.i = @ + 1,
                !.updateable = IF push THEN Append(@, upd.i) ELSE @,
                !.checks = Append(@, check)]

\* An awaited call threw: listUpdateableGames rejects.
Thrown(check) ==
    [upd EXCEPT !.pc = "done", !.outcome = "rejected", !.checks = Append(@, check)]

\* Lines 362-364: the installed records are taken from the installed map.
ListUpdateableCall ==
    /\ upd.pc = "ready"
    /\ upd' = [upd EXCEPT !.pc = "loop", !.i = 1]
    /\ UNCHANGED <<libraryVars, cmd, run, enr, loop, scr>>

\* Lines 365-377 and 383-384: the next installed title is dispatched by
\* platform; after the last one the identifiers found are returned.
ListNext ==
    /\ upd.pc = "loop"
    /\ upd' = IF upd.i > Len(upd.installed)
              THEN [upd EXCEPT !.pc = "done", !.outcome = "resolved"]
              ELSE IF upd.installed[upd.i].platform = "linux"
              THEN [upd EXCEPT !.pc = "linux"]
              ELSE [upd EXCEPT !.pc = "builds"]
    /\ UNCHANGED <<libraryVars, cmd, run, enr, loop, scr>>

\* Lines 367-373 and 387-400: the downloads request of the linux branch
\* settled.
LinuxInstallerChecked ==
    /\ upd.pc = "linux"
    /\ \E response \in DownloadsResponses :
        LET same == checkForLinuxInstallerUpdate(response, upd.installed[upd.i].version)
            first == FirstLinux(response.installers)
            check == Check("linux", response.kind # "listing",
                           IF first = <<>> THEN "" ELSE first[1].version, "", <<>>, "", 0)
        IN upd' = IF same = "throws" THEN Thrown(check)
                  ELSE Checked(LinuxNeedsUpdate(same), check)
    /\ UNCHANGED <<libraryVars, cmd, run, enr, loop, scr>>

\* Lines 407-415: the builds request of the generic branch settled; nothing
\* catches its failure, nor the request for a link that is undefined.
BuildsListed ==
    /\ upd.pc = "builds"
    /\ \E response \in BuildsResponses :
        upd' = IF response.kind = "failed" \/ response.items = <<>>
               THEN Thrown(Check("generic", TRUE, "", "", <<>>, "", 0))
               ELSE [upd EXCEPT !.pc = "meta",
                                !.headers = <<response.items[1],
                                              IfNoneMatch(upd.installed[upd.i].versionEtag)>>]
    /\ UNCHANGED <<libraryVars, cmd, run, enr, loop, scr>>

\* Lines 416-421: the metadata request settled: a failure or a status other
\* than 200 and 304 makes axios throw.
MetaAnswered ==
    /\ upd.pc = "meta"
    /\ \E serverEtag \in Etags, answer \in {"failed", "status", "server_error"} :
        LET url == upd.headers[1]
            headers == upd.headers[2]
            status == IF answer = "status" THEN MetaStatus(headers, serverEtag)
                      ELSE IF answer = "server_error" THEN 500 ELSE 0
            check == Check("generic", answer # "status", "", url, headers, serverEtag, status)
        IN upd' = IF answer = "status"
                  THEN [Checked(HasUpdate(status), check) EXCEPT !.headers = <<>>]
                  ELSE [Thrown(check) EXCEPT !.headers = <<>>]
    /\ UNCHANGED <<libraryVars, cmd, run, enr, loop, scr>>

NextUpd ==
    \/ ListUpdateableCall
    \/ ListNext
    \/ LinuxInstallerChecked
    \/ BuildsListed
    \/ MetaAnswered

SpecUpd == InitUpd /\ [][NextUpd]_vars

\* ---------------------------------------------------- gogToUnifiedInfo()
MaxDevelopers == 2
Names == {"A", "B"}
DeveloperLists == UNION {[1..n -> Names] : n \in 0..MaxDevelopers}
FallBackImage == <<"fallback.jpg">>
UrlFormat == <<"//covers/1", "{formatter}", ".", "{ext}">>
BoxArt == <<"//boxart/1.png">>
Summary == <<"about">>

\* A field that may be missing is a sequence of no or one value.
Optional(values) == {<<>>} \cup {<<v>> : v \in values}

\* The secondary metadata handed to the enricher: undefined, the {} that a
\* failed gamesdb request leaves, or a body with a game object, any field of
\* which may be missing.
GamesdbBodies ==
    {[game |-> FALSE, developers |-> <<>>, vertical_cover |-> <<>>, summary |-> <<>>]}
    \cup [game : {TRUE}, developers : Optional(DeveloperLists),
          vertical_cover : Optional({UrlFormat}), summary : Optional({Summary})]

\* What getGamesData() resolves with: null after a failed request, or the
\* body, with or without _links, and these with or without boxArtImage.
DetailBodies ==
    {[ok |-> FALSE, links |-> FALSE, boxArtImage |-> <<>>],
     [ok |-> TRUE, links |-> FALSE, boxArtImage |-> <<>>],
     [ok |-> TRUE, links |-> TRUE, boxArtImage |-> <<>>],
     [ok |-> TRUE, links |-> TRUE, boxArtImage |-> <<BoxArt>>]}

\* String.prototype.replace with a string pattern: the first occurrence.
RECURSIVE Replace(_, _, _)
Replace(str, piece, with) ==
    IF str = <<>> THEN <<>>
    ELSE IF Head(str) = piece THEN with \o Tail(str)
    ELSE <<Head(str)>> \o Replace(Tail(str), piece, with)

\* Lines 446 and 467: `https:${info.image}.jpg`.
HorizontalCover(info) == <<"https:">> \o info.image \o <<".jpg">>

Raised == [state |-> "threw", developer |-> <<>>, art_square |-> <<>>,
           art_cover |-> <<>>, description |-> <<>>]

\* A faulty variant of Developer: only the first developer is named.
DeveloperFirst(developers) == IF developers = <<>> THEN <<>> ELSE <<developers[1]>>

\* Lines 438-442: the names are collected in listed order and joined by ', '.
Developer(developers) ==
    JoinWith([i \in 1..Len(developers) |-> <<developers[i]>>], ", ")

\* A faulty variant of VerticalCover: the detail response is never used.
VerticalCoverPlaceholder(detail) == <<FallBackImage>>

\* Lines 457-466: the vertical cover without gamesdb data, <<>> when reading
\* it throws: _links.boxArtImage.href is read whenever _links is there.
VerticalCover(detail) ==
    IF detail.ok /\ detail.links THEN detail.boxArtImage ELSE <<FallBackImage>>

\* Lines 428-507, with the fields this development looks at.  Reading a
\* property of a missing field throws a TypeError.
UnifiedInfo(info, gamesdbData, detail) ==
    IF gamesdbData.game
    THEN IF \/ gamesdbData.developers = <<>>
            \/ gamesdbData.vertical_cover = <<>>
            \/ gamesdbData.summary = <<>>
         THEN Raised
         ELSE [state |-> "returned",
               developer |-> Developer(gamesdbData.developers[1]),
               art_square |-> Replace(Replace(gamesdbData.vertical_cover[1],
                                              "{formatter}", <<>>), "{ext}", <<"jpg">>),
               art_cover |-> HorizontalCover(info),
               description |-> gamesdbData.summary[1]]
    ELSE IF VerticalCover(detail) = <<>>
         THEN Raised
         ELSE [state |-> "returned", developer |-> <<>>,
               art_square |-> VerticalCover(detail)[1],
               art_cover |-> HorizontalCover(info), description |-> <<>>]

InitEnr ==
    /\ InitLibrary({})
    /\ cmd = NoCmd
    /\ run = NoRun
    /\ upd = NoUpd
    /\ loop = NoLoop
    /\ scr = NoScr
    /\ \E gamesdbData \in GamesdbBodies, detail \in DetailBodies :
           enr = [pc |-> "ready", info |-> [id |-> 1, image |-> <<"//images/1">>],
                  gamesdbData |-> gamesdbData, detail |-> detail,
                  result |-> [state |-> "pending"]]

\* sync() awaits the enricher for a catalog entry (line 211).
GogToUnifiedInfoCall ==
    /\ enr.pc = "ready"
    /\ enr' = [enr EXCEPT !.pc = "done",
                          !.result = UnifiedInfo(enr.info, enr.gamesdbData, enr.detail)]
    /\ UNCHANGED <<libraryVars, cmd, run, upd, loop, scr>>

NextEnr == GogToUnifiedInfoCall

SpecEnr == InitEnr /\ [][NextEnr]_vars

\* ------------------------------------------------ the page loop of sync()
\* Lines 157-189 on their own, with a remote that may report more pages than
\* the library model above can hold.
MaxPages == 3       \* largest totalPages the remote reports

\* data of a catalog page response: with or without a products array, the
\* titles on the page when it has one.
PageBodies ==
    [hasProducts : {TRUE}, products : Catalogs, totalPages : 0..MaxPages]
    \cup [hasProducts : {FALSE}, products : {<<>>}, totalPages : 0..MaxPages]

\* A faulty variant of MorePages: the loop stops one page early.
MorePagesStrict(p, n) == p < n

\* Line 178: the condition of `for (let page = 2; page <= numberOfPages; page++)`.
MorePages(p, n) == p <= n

InitPages ==
    /\ InitLibrary({})
    /\ cmd = NoCmd
    /\ run = NoRun
    /\ upd = NoUpd
    /\ enr = NoEnr
    /\ scr = NoScr
    /\ loop = [pc |-> "ready", page |-> 0, numberOfPages |-> 0, totalPages |-> -1,
               gameApiArray |-> <<>>, requested |-> <<>>, answered |-> <<>>]

\* Lines 157-161: the page-1 request is issued and awaited.
PageLoopCall ==
    /\ loop.pc = "ready"
    /\ loop' = [loop EXCEPT !.pc = "page1", !.requested = <<1>>]
    /\ UNCHANGED <<libraryVars, cmd, run, upd, enr, scr>>

\* Lines 178-184 after the increment or initialisation of page to p: the
\* loop requests page p while it is within numberOfPages, else it is over
\* and the merge loop follows.
PageLoopStep(l, p) ==
    IF MorePages(p, l.numberOfPages)
    THEN [l EXCEPT !.pc = "pages", !.page = p, !.requested = Append(@, p)]
    ELSE [l EXCEPT !.pc = "merge", !.page = p]

\* Lines 162-178: the page-1 request settled. A failure is caught and sync()
\* returns; a body without products skips the loop.
Page1Answered ==
    /\ loop.pc = "page1"
    /\ LET arrived == [loop EXCEPT !.answered = Append(@, 1)] IN
       \/ loop' = [arrived EXCEPT !.pc = "returned"]
       \/ \E data \in PageBodies :
            LET got == [arrived EXCEPT !.totalPages = data.totalPages] IN
            IF ~data.hasProducts
            THEN loop' = [got EXCEPT !.pc = "merge"]
            ELSE loop' = PageLoopStep(
                     [got EXCEPT !.numberOfPages = data.totalPages,
                                 !.gameApiArray = data.products], 2)
    /\ UNCHANGED <<libraryVars, cmd, run, upd, enr, scr>>

\* Lines 179-188: the request for page loop.page settled. A failure is not
\* caught and sync() rejects; products are appended when the body has them.
PageAnswered ==
    /\ loop.pc = "pages"
    /\ LET arrived == [loop EXCEPT !.answered = Append(@, loop.page)] IN
       \/ loop' = [arrived EXCEPT !.pc = "rejected"]
       \/ \E data \in PageBodies :
            loop' = PageLoopStep(
                [arrived EXCEPT !.gameApiArray =
                     IF data.hasProducts THEN AppendPage(@, data.products)
                     ELSE @],
                loop.page + 1)
    /\ UNCHANGED <<libraryVars, cmd, run, upd, enr, scr>>

NextPages ==
    \/ PageLoopCall
    \/ Page1Answered
    \/ PageAnswered

SpecPages == InitPages /\ [][NextPages]_vars

\* ------------------------------------------------- the Settings screen
\* src/screens/Settings/index.tsx: one Settings component, its route
\* parameter appName, its state, and the asynchronous answers it waits for.
\* The settings of the component state are one value: where they come from
\* ("initial" for the useState defaults, else the appName whose persisted
\* settings a 'requestSettings' answer carried) and whether the user has
\* edited them since.
MaxRequests == 3    \* renders that issue 'requestSettings' (mount, route changes)
MaxEdits == 1       \* edits of a form field by the user

RouteAppNames == {"default", "game"}

\* Lines 48-185: the useState/useToggle defaults.
InitialSettings == [from |-> "initial", edited |-> FALSE]

InitSettings ==
    /\ InitLibrary({})
    /\ cmd = NoCmd
    /\ run = NoRun
    /\ upd = NoUpd
    /\ enr = NoEnr
    /\ loop = NoLoop
    /\ scr = [pc |-> "unmounted", appName |-> "", settings |-> InitialSettings,
              title |-> FALSE, applied |-> FALSE, requests |-> {}, infos |-> {},
              issued |-> 0, edits |-> 0, writes |-> <<>>]

\* Lines 265-336: the effect with the dependencies [GlobalSettings,
\* GameSettings, appName].  Both objects are built anew by every render, so
\* the effect runs after every render and calls
\* writeConfig([appName, settingsToSave]) with the state as it is.
WriteConfigEffect(s) ==
    [s EXCEPT !.writes = Append(@, [appName |-> s.appName, settings |-> s.settings,
                                    applied |-> s.applied])]

\* Lines 196-199 and 258: the effect with the dependencies [appName, type,
\* isDefault, i18n.language] invokes 'requestSettings' for the appName of
\* the render.
GetSettingsEffect(s) ==
    [s EXCEPT !.issued = @ + 1,
              !.requests = @ \cup {[appName |-> s.appName, n |-> s.issued + 1]}]

\* Lines 42-336: the first render of the screen for appName and its effects.
Mount ==
    /\ scr.pc = "unmounted"
    /\ \E appName \in RouteAppNames :
        scr' = WriteConfigEffect(GetSettingsEffect(
                   [scr EXCEPT !.pc = "mounted", !.appName = appName]))
    /\ UNCHANGED <<libraryVars, cmd, run, upd, enr, loop>>

\* Line 187: the route changes to another appName, or to another type of
\* the same appName; the component stays mounted with its state and renders
\* again, and both effects run.
Navigate ==
    /\ scr.pc = "mounted"
    /\ scr.issued < MaxRequests
    /\ \E appName \in RouteAppNames :
        scr' = WriteConfigEffect(GetSettingsEffect(
                   [scr EXCEPT !.appName = appName,
                               !.applied = @ /\ appName = scr.appName]))
    /\ UNCHANGED <<libraryVars, cmd, run, upd, enr, loop>>

\* Lines 198-257: an answer to 'requestSettings' arrives, whichever render
\* asked for it.  Every field of the state is set from it; for a game the
\* title follows after getGameInfo, for 'default' it is set at once.  The
\* component renders again and the writeConfig effect runs.
SettingsArrive ==
    /\ scr.pc = "mounted"
    /\ \E r \in scr.requests :
        LET isDefault == r.appName = "default" IN
        scr' = WriteConfigEffect(
                   [scr EXCEPT !.requests = @ \ {r},
                               !.settings = [from |-> r.appName, edited |-> FALSE],
                               !.applied = (r.appName = scr.appName),
                               !.title = @ \/ isDefault,
                               !.infos = IF isDefault THEN @ ELSE @ \cup {r}])
    /\ UNCHANGED <<libraryVars, cmd, run, upd, enr, loop>>

\* Lines 244-255: getGameInfo answered; title and the native flags are set,
\* the component renders again and the writeConfig effect runs.
GameInfoArrive ==
    /\ scr.pc = "mounted"
    /\ \E r \in scr.infos :
        scr' = WriteConfigEffect([scr EXCEPT !.infos = @ \ {r}, !.title = TRUE])
    /\ UNCHANGED <<libraryVars, cmd, run, upd, enr, loop>>

\* Lines 338-340 and the forms below: once a title is set the forms are
\* shown and the user changes a field; the component renders again and the
\* writeConfig effect runs.
Edit ==
    /\ scr.pc = "mounted"
    /\ scr.title
    /\ scr.edits < MaxEdits
    /\ scr' = WriteConfigEffect([scr EXCEPT !.edits = @ + 1, !.settings.edited = TRUE])
    /\ UNCHANGED <<libraryVars, cmd, run, upd, enr, loop>>

NextSettings ==
    \/ Mount
    \/ Navigate
    \/ SettingsArrive
    \/ GameInfoArrive
    \/ Edit

SpecSettings == InitSettings /\ [][NextSettings]_vars

\* ================================================================ claims
Synced == ret = [op |-> "sync", result |-> "completed"]

\* The catalog entries the current (else the last) sync() received, in order.
Fetched == Flatten([k \in 1..Len(delivered) |-> delivered[k].products])

AppNames(arr) == [i \in 1..Len(arr) |-> arr[i].app_name]

NoDuplicates(seq) == \A i, j \in 1..Len(seq) : i # j => seq[i] # seq[j]

\* The catalog stores and the library map are as they were when the call began.
CatalogStateAsBefore ==
    /\ libGames = pre.libGames
    /\ libTotals = pre.libTotals
    /\ apiInfoCache = pre.apiInfoCache
    /\ library = pre.library

\* C1: in every reachable state no record of the persisted catalog array
\* ('games' of the Library Store) carries installed-state: is_installed is
\* false and install is the default sub-structure, also for installed titles.
C1_PersistedCarriesNoInstallState ==
    \A i \in 1..Len(libGames) :
        /\ libGames[i].is_installed = FALSE
        /\ libGames[i].install = DefaultInstall

\* C1 witness: a sync() completed and persisted a title that is installed and
\* whose library-map copy carries the install data.
C1_Witness ==
    /\ Synced
    /\ \E i \in 1..Len(libGames) :
        LET id == libGames[i].app_name IN
        /\ id \in DOMAIN installedStore
        /\ id \in DOMAIN library
        /\ library[id].is_installed
        /\ library[id].install = installedStore[id]

\* C2 as stated: after a completed sync() every fetched title that is in the
\* Installed Store has is_installed = true and a populated install field in
\* its entry of the persisted Library Store.
C2_AsStated ==
    Synced =>
        \A id \in SeqToSet(Fetched) \cap DOMAIN installedStore :
            LET i == FindIndex(libGames, id) IN
            /\ i # 0
            /\ libGames[i].is_installed
            /\ libGames[i].install = installedStore[id]

\* C2 amended: after a completed sync() every fetched title that is in the
\* Installed Store has is_installed = true and the Installed Store's record as
\* install in its entry of the in-memory library map.
C2_InstalledInLibraryMap ==
    Synced =>
        \A id \in SeqToSet(Fetched) \cap DOMAIN installedStore :
            /\ id \in DOMAIN library
            /\ library[id].is_installed
            /\ library[id].install = installedStore[id]

\* C2 witness: a completed sync() fetched a title of the Installed Store.
C2_Witness ==
    /\ Synced
    /\ SeqToSet(Fetched) \cap DOMAIN installedStore # {}

\* The sync() that just completed received the entries and totals that the
\* previous completed sync() persisted.
RepeatedSync ==
    /\ Synced
    /\ pre.libTotals # <<>>
    /\ Fetched = AppNames(pre.libGames)
    /\ libTotals = pre.libTotals

\* The repeated run reuses every record: nothing is enriched, no metadata is
\* requested, and the persisted array is the one found.
ReusedUnmodified ==
    /\ libGames = pre.libGames
    /\ enriched = <<>>
    /\ \A k \in 1..Len(net) : net[k].kind = "page"

\* C3 as stated: a sync() repeated with identical remote responses persists
\* the array the previous run persisted, reusing every record without
\* calling the Metadata Enricher or requesting secondary metadata.
C3_AsStated == RepeatedSync => ReusedUnmodified

\* C3 amended: the same, provided no identifier occurs twice in the responses.
C3_IdempotentOnUniqueIds ==
    (RepeatedSync /\ NoDuplicates(Fetched)) => ReusedUnmodified

\* C3 witness: a repeated sync() over a non-empty duplicate-free catalog.
C3_Witness ==
    /\ RepeatedSync
    /\ NoDuplicates(Fetched)
    /\ Fetched # <<>>
    /\ libGames = pre.libGames

C5_NoSessionNoEffect ==
    pre.session = "absent" =>
        /\ ret = [op |-> "sync", result |-> "no_session"]
        /\ pc = "idle"
        /\ net = <<>>
        /\ CatalogStateAsBefore
        /\ installedStore = pre.installedStore
        /\ installedGames = pre.installedGames

\* C5 witness: a session-less sync() returned with populated stores and maps.
C5_Witness ==
    /\ ret = [op |-> "sync", result |-> "no_session"]
    /\ libGames # <<>>
    /\ library # EmptyMap
    /\ installedGames # EmptyMap

\* C6: when the page-1 request fails, sync() returns without throwing, has
\* requested page 1 only, and has written nothing to the Library Store, the
\* ApiInfoCache or the library map.
C6_Page1FailureAborts ==
    pageFailed = 1 =>
        /\ ret = [op |-> "sync", result |-> "page1_failed"]
        /\ pc = "idle"
        /\ net = <<Request("page", 1)>>
        /\ CatalogStateAsBefore

\* C6 witness: page 1 failed while a catalog was already persisted.
C6_Witness ==
    /\ pageFailed = 1
    /\ ret = [op |-> "sync", result |-> "page1_failed"]
    /\ libGames # <<>>

\* C7: when the request for a page k >= 2 fails, sync() rejects and the
\* Library Store, the ApiInfoCache and the library map are as before the
\* call: the pages received so far are not persisted.
C7_LaterPageFailureRejects ==
    pageFailed >= 2 =>
        /\ ret = [op |-> "sync", result |-> "rejected"]
        /\ pc = "idle"
        /\ CatalogStateAsBefore

\* C7 witness: page 2 failed after page 1 had delivered an entry that the
\* persisted catalog does not hold.
C7_Witness ==
    /\ pageFailed = 2
    /\ ret = [op |-> "sync", result |-> "rejected"]
    /\ Fetched # <<>>
    /\ FindIndex(libGames, Fetched[1]) = 0

\* The record kept for id is the same record but for its folder name.
KeptButFolder(old, new) == [new EXCEPT !.folder_name = old.folder_name] = old

\* C8 as stated: a record persisted for an identifier stays in the persisted
\* array for ever, changed at most in install-state and folder name.
C8_AsStated ==
    [][\A i \in 1..Len(libGames) :
          LET id == libGames[i].app_name
              j == FindIndex(libGames', id)
          IN /\ j # 0
             /\ KeptButFolder(libGames[FindIndex(libGames, id)], libGames'[j])]_vars

\* C8 amended: a record persisted for an identifier stays in the persisted
\* array, changed at most in its folder name, through every call except a
\* sync() that completes without having fetched the identifier, which removes it.
C8_KeptWhileFetched ==
    [][\A i \in 1..Len(libGames) :
          LET id == libGames[i].app_name
              j == FindIndex(libGames', id)
          IN \/ /\ j # 0
                /\ KeptButFolder(libGames[FindIndex(libGames, id)], libGames'[j])
             \/ /\ j = 0
                /\ pc = "merge"
                /\ ret' = [op |-> "sync", result |-> "completed"]
                /\ id \notin SeqToSet(Fetched)]_vars

\* C8 witness: a record that got its folder name from getInstallInfo() is
\* still persisted, with that folder name, after a later sync().
C8_Witness ==
    /\ Synced
    /\ \E i \in 1..Len(libGames) : libGames[i].folder_name = ToolFolder

\* The text " a1 a2 ..." of the non-empty arguments of v that are not in dropped.
RECURSIVE Echo(_, _)
Echo(v, dropped) ==
    IF v = <<>> THEN <<>>
    ELSE (IF Head(v) = <<>> \/ Head(v) \in dropped THEN <<>> ELSE <<Space>> \o Head(v))
             \o Echo(Tail(v), dropped)

\* The argument vectors that differ from v only in the value of a token.
RECURSIVE TokenVariants(_)
TokenVariants(v) ==
    IF v = <<>> THEN {<<>>}
    ELSE LET heads == IF Head(v) \in TokenArgs THEN TokenArgs ELSE {Head(v)}
         IN {<<h>> \o t : h \in heads, t \in TokenVariants(Tail(v))}

\* str is the binary path, bare or quoted, followed by rest.
PathThen(str, binPath, rest) ==
    str \in {binPath \o rest, <<Quote>> \o binPath \o <<Quote>> \o rest}

\* The command line shows no token: no argument of the dropped kind, no
\* secret value, and the same text for every value of the token.
Redacted(dropped) ==
    /\ PathThen(cmd.out, cmd.binPath, Echo(cmd.commandParts, dropped))
    /\ \A i \in 1..Len(cmd.out) : cmd.out[i] \notin Secrets
    /\ \A w \in TokenVariants(cmd.commandParts) :
           getGogdlCommand(w, cmd.binPath) = cmd.out

\* C9 as stated: the returned string is the binary path followed, separated
\* by single spaces and in their order, by the non-empty arguments other
\* than '--token=' arguments; it is the same for every token value.
C9_AsStated == cmd.pc = "done" => Redacted(TokenArgs)

\* C9 amended: the returned string is the binary path (quoted if it holds a
\* space) followed, separated by single spaces and in their order, by the
\* non-empty arguments that do not begin with '--token'; it holds no
\* '--token=' argument and no token value, and is the same for every token value.
C9_TokenPrefixedDropped ==
    cmd.pc = "done" =>
        /\ Redacted({a \in ArgPool : StartsWith(a, TokenFlag)})
        /\ \A i \in 1..Len(cmd.out) : cmd.out[i] # TokenFlag

\* C9 witness: the spec's example ['info','123','--token=SECRET','--lang=en-US'].
C9_Witness ==
    /\ cmd.pc = "done"
    /\ cmd.commandParts = <<<<"info">>, <<"123">>, <<TokenFlag, "=", "SECRET">>, <<"--lang=en-US">>>>
    /\ cmd.out = <<"/opt/gogdl", Space, "info", Space, "123", Space, "--lang=en-US">>

ErrorTagged ==
    [state |-> "fulfilled",
     value |-> <<[stdout |-> <<>>, stderr |-> <<>>,
                  fullCommand |-> getGogdlCommand(run.commandParts, run.binPath),
                  error |-> SpawnError]>>]

\* The result of a call whose child closed first: the output, no error field.
Plain ==
    /\ run.outer.state = "fulfilled"
    /\ DOMAIN run.outer.value[1] = {"stdout", "stderr", "fullCommand"}
    /\ run.outer.value[1].fullCommand = getGogdlCommand(run.commandParts, run.binPath)

\* What the child's events make of the returned promise.
SettledByChild ==
    /\ run.events = <<>> => run.outer.state = "pending"
    /\ (run.events # <<>> /\ run.events[1] = "error") => run.outer = ErrorTagged
    /\ (run.events # <<>> /\ run.events[1] = "close") => Plain
    /\ run.events # <<>> => run.outcomes = <<run.outer>>

\* C10 as stated: the promise runGogdlCommand returns is never rejected; an
\* 'error' event before 'close' resolves it with the error-tagged result, a
\* 'close' with no earlier 'error' resolves it, only then, without an error
\* field; it is settled once whatever the order of the two events.
C10_AsStated ==
    run.pc # "ready" =>
        /\ run.outer.state # "rejected"
        /\ Len(run.outcomes) <= 1
        /\ run.pc = "child" => SettledByChild

\* C10 amended: the returned promise is rejected only when emptying the log
\* file throws, before any process is spawned; once the child is spawned it is
\* never rejected: an 'error' event before 'close' resolves it with the
\* error-tagged result (error set, stdout and stderr '', fullCommand the
\* redacted command), a 'close' with no earlier 'error' resolves it, only
\* then, without an error field, and it is settled once whatever the order.
C10_RejectsOnlyOnLogFailure ==
    run.pc # "ready" =>
        /\ run.outer.state = "rejected" <=> run.pc = "threw"
        /\ run.pc = "threw" => (run.logFile # "" /\ run.file.exists /\ run.events = <<>>)
        /\ Len(run.outcomes) <= 1
        /\ run.pc = "child" => SettledByChild

\* C10 witness: 'error' then 'close' after output was buffered; the result is
\* the error-tagged one, observed once.
C10_Witness ==
    /\ run.pc = "child"
    /\ run.events = <<"error", "close">>
    /\ run.stdout # <<>>
    /\ run.outer = ErrorTagged
    /\ run.outcomes = <<ErrorTagged>>

\* The chunks that arrived on the streams, in arrival order.
ChunksOf(arrived, streams) ==
    LET on == SelectSeq(arrived, LAMBDA c : c.stream \in streams)
    IN [i \in 1..Len(on) |-> on[i].data]

Trimmed(chunks) == [i \in 1..Len(chunks) |-> Trim(chunks[i])]

\* C11: with a log file path given, the file is emptied before the child
\* produces output and every chunk of stdout and stderr is appended to it in
\* arrival order and pushed (trimmed) onto its stream's buffer: while the
\* child runs and when it has closed, the file holds exactly this run's
\* chunks in arrival order, nothing of an earlier run, and the buffers hold
\* every chunk of the file.
C11_LogHoldsThisRun ==
    (run.pc = "child" /\ run.logFile # "") =>
        /\ run.file.text = Flatten(ChunksOf(run.arrived, {"stdout", "stderr"}))
        /\ run.stdout = Trimmed(ChunksOf(run.arrived, {"stdout"}))
        /\ run.stderr = Trimmed(ChunksOf(run.arrived, {"stderr"}))
        /\ Len(run.stdout) + Len(run.stderr) = Len(run.arrived)

\* C11 witness: the child closed after two different chunks, one on each
\* stream; the log file holds the two in arrival order.
C11_Witness ==
    /\ run.pc = "child"
    /\ run.logFile # ""
    /\ "close" \in SeqToSet(run.events)
    /\ run.stdout # <<>>
    /\ run.stderr # <<>>
    /\ run.file.text = run.arrived[1].data \o run.arrived[2].data
    /\ run.arrived[1].data # run.arrived[2].data

\* getInstallInfo() (called directly or by importGame) has returned an InstallInfo.
InstallInfoReturned ==
    /\ gi.pc = "idle"
    /\ gi.res = "json"
    /\ ret = [op |-> gi.caller, result |-> "returned"]

\* C12: after getInstallInfo(appName) has returned an InstallInfo, the title
\* was in the library map and in the persisted array, the folder_name of its
\* map record and of its persisted record is the one gogdl reported, and the
\* persisted array is otherwise as before the call: no other record and no
\* other field of that record has changed.
C12_FolderNameInBoth ==
    InstallInfoReturned =>
        LET appName == gi.appName
            i == FindIndex(pre.libGames, appName)
        IN /\ appName \in DOMAIN pre.library
           /\ i # 0
           /\ library[appName].folder_name = ToolFolder
           /\ libGames[i].app_name = appName
           /\ libGames[i].folder_name = ToolFolder
           /\ libGames = [pre.libGames EXCEPT ![i].folder_name = ToolFolder]
           /\ libTotals = pre.libTotals

\* C12 witness: getInstallInfo() returned for the second of two persisted
\* records, neither of which had a folder name.
C12_Witness ==
    /\ InstallInfoReturned
    /\ gi.caller = "getInstallInfo"
    /\ Len(libGames) = 2
    /\ FindIndex(libGames, gi.appName) = 2
    /\ pre.libGames[1].folder_name = ""
    /\ pre.libGames[2].folder_name = ""
    /\ libGames[2].folder_name = ToolFolder

\* C13: when gogdl's stdout is not a JSON document (the '' of the
\* error-tagged result of a failed spawn included), getInstallInfo() rejects
\* with the parse error instead of returning an InstallInfo, and the Library
\* Store and the library map are as they were before the call.
C13_ParseErrorChangesNothing ==
    (gi.pc = "idle" /\ gi.res \in {"spawn_error", "not_json"}) =>
        /\ ret = [op |-> gi.caller, result |-> "rejected"]
        /\ libGames = pre.libGames
        /\ libTotals = pre.libTotals
        /\ library = pre.library

\* C13 witness: gogdl could not be spawned for a title that is in the library
\* map and in the persisted array.
C13_Witness ==
    /\ gi.pc = "idle"
    /\ gi.res = "spawn_error"
    /\ gi.caller = "getInstallInfo"
    /\ gi.appName \in DOMAIN library
    /\ FindIndex(libGames, gi.appName) # 0
    /\ ret = [op |-> "getInstallInfo", result |-> "rejected"]

\* The titles a call of listUpdateableGames() has checked so far; the k-th
\* check is that of the k-th installed title, whose identifier is k.
CheckedTitles == 1..Len(upd.checks)

Updateable(k) == k \in SeqToSet(upd.updateable)

\* C14: for a non-linux installed title with a recorded etag, the generic
\* branch requests the metadata link of the latest build with the recorded
\* etag as If-None-Match, and reports no update when the server's current
\* etag is the recorded one (304) and an update when it differs (200).
C14_EtagDecidesUpdate ==
    \A k \in CheckedTitles :
        LET game == upd.installed[k]
            check == upd.checks[k]
        IN (game.platform # "linux" /\ game.versionEtag # "" /\ ~check.failed) =>
               /\ check.url = "meta2"
               /\ check.headers = <<game.versionEtag>>
               /\ check.status = (IF game.versionEtag = check.serverEtag THEN 304 ELSE 200)
               /\ Updateable(k) <=> game.versionEtag # check.serverEtag

\* C14 witness: two windows titles with the same recorded etag; the server's
\* etag was the recorded one for the first and another one for the second,
\* and the call returned the second only.
C14_Witness ==
    /\ upd.outcome = "resolved"
    /\ Len(upd.checks) = 2
    /\ \A k \in 1..2 : upd.installed[k].versionEtag = "e1"
    /\ upd.checks[1].serverEtag = "e1"
    /\ upd.checks[2].serverEtag = "e2"
    /\ upd.updateable = <<2>>

\* C15: for an installed linux title whose downloads listing has a linux
\* installer, the identifier is in the result exactly when the version of
\* that installer differs from the recorded version.
C15_LinuxVersionDecidesUpdate ==
    \A k \in CheckedTitles :
        LET game == upd.installed[k]
            check == upd.checks[k]
        IN (game.platform = "linux" /\ check.listed # "") =>
               (Updateable(k) <=> check.listed # game.version)

\* C15 witness: two linux titles installed at '1.0'; the listing had '1.0'
\* for the first and '1.1' for the second, and the call returned the second
\* only.
C15_Witness ==
    /\ upd.outcome = "resolved"
    /\ Len(upd.checks) = 2
    /\ \A k \in 1..2 : upd.installed[k].platform = "linux" /\ upd.installed[k].version = "1.0"
    /\ upd.checks[1].listed = "1.0"
    /\ upd.checks[2].listed = "1.1"
    /\ upd.updateable = <<2>>

\* C16 as stated: listUpdateableGames() always resolves; a failed remote
\* check of one title does not make the call reject, does not keep the
\* remaining titles from being checked and does not put the title into the
\* result.
C16_AsStated ==
    upd.pc = "done" =>
        /\ upd.outcome = "resolved"
        /\ Len(upd.checks) = Len(upd.installed)
        /\ \A k \in CheckedTitles : upd.checks[k].failed => ~Updateable(k)

\* The developer string is the names in listed order with ', ' between them.
NamesJoined(developer, names) ==
    /\ Len(developer) = IF names = <<>> THEN 0 ELSE 2 * Len(names) - 1
    /\ \A i \in 1..Len(names) : developer[2 * i - 1] = names[i]
    /\ \A i \in 1..(Len(names) - 1) : developer[2 * i] = ", "

\* C17 as stated: for secondary metadata with a game object that lists
\* developers, the enricher returns a record whose developer is the names
\* joined by ', ' in listed order; {game:{developers:[{name:'A'},{name:'B'}]}}
\* yields 'A, B'.
C17_AsStated ==
    (enr.pc = "done" /\ enr.gamesdbData.game /\ enr.gamesdbData.developers # <<>>) =>
        /\ enr.result.state = "returned"
        /\ NamesJoined(enr.result.developer, enr.gamesdbData.developers[1])

\* C17 amended: for secondary metadata whose game object carries developers,
\* vertical_cover and summary, the enricher returns a record whose developer
\* is the names joined by ', ' in listed order; when the game object lacks
\* one of the three, as {game:{developers:[{name:'A'},{name:'B'}]}} does, the
\* enricher raises instead of returning a record.
C17_DevelopersJoinedOrRaise ==
    (enr.pc = "done" /\ enr.gamesdbData.game) =>
        IF \/ enr.gamesdbData.developers = <<>>
           \/ enr.gamesdbData.vertical_cover = <<>>
           \/ enr.gamesdbData.summary = <<>>
        THEN enr.result.state = "threw"
        ELSE /\ enr.result.state = "returned"
             /\ NamesJoined(enr.result.developer, enr.gamesdbData.developers[1])

\* C17 witness: developers A and B, with cover and summary, give 'A, B'.
C17_Witness ==
    /\ enr.pc = "done"
    /\ enr.gamesdbData.game
    /\ enr.gamesdbData.developers = <<(<<"A", "B">>)>>
    /\ enr.result.state = "returned"
    /\ enr.result.developer = <<"A", ", ", "B">>

\* C18 as stated: without a game object in the secondary metadata the
\* enricher always returns a record: its vertical cover is the detail
\* response's _links.boxArtImage.href when that link is there and the
\* placeholder image otherwise, its horizontal cover is made of the catalog
\* entry's image path.
C18_AsStated ==
    (enr.pc = "done" /\ ~enr.gamesdbData.game) =>
        /\ enr.result.state = "returned"
        /\ enr.result.art_square =
               (IF enr.detail.ok /\ enr.detail.links /\ enr.detail.boxArtImage # <<>>
                THEN enr.detail.boxArtImage[1] ELSE FallBackImage)
        /\ enr.result.art_cover = <<"https:", "//images/1", ".jpg">>

\* C18 amended: without a game object in the secondary metadata the enricher
\* returns a record whose vertical cover is the detail response's
\* _links.boxArtImage.href when that link is there, and the placeholder image
\* when the detail request failed or the response has no _links; a response
\* with _links but without boxArtImage makes it raise.  The horizontal cover
\* of every record returned is made of the catalog entry's image path.
C18_FallbackCoverOrRaise ==
    (enr.pc = "done" /\ ~enr.gamesdbData.game) =>
        IF enr.detail.ok /\ enr.detail.links /\ enr.detail.boxArtImage = <<>>
        THEN enr.result.state = "threw"
        ELSE /\ enr.result.state = "returned"
             /\ enr.result.art_square =
                    (IF enr.detail.ok /\ enr.detail.links
                     THEN enr.detail.boxArtImage[1] ELSE FallBackImage)
             /\ enr.result.art_cover = <<"https:", "//images/1", ".jpg">>

\* C18 witness: no game object and a detail response with the box-art link.
C18_Witness ==
    /\ enr.pc = "done"
    /\ ~enr.gamesdbData.game
    /\ enr.detail.boxArtImage = <<BoxArt>>
    /\ enr.result.state = "returned"
    /\ enr.result.art_square = BoxArt

\* C19 as stated: whenever no operation is running, in a sequence of sync()
\* (completed, or aborted by a page-1 failure), importGame() and
\* changeGameInstallPath() calls, the installed map mirrors the Installed
\* Store: the same identifiers, and for each identifier the same record
\* (install path, version).
C19_AsStated == Quiet => installedGames = installedStore

\* The identifiers of the catalog array in the Library Store.
PersistedIds == SeqToSet(AppNames(libGames))

\* C20 as stated: after a sync() that ran to completion the key set of the
\* library map equals the set of identifiers of the catalog array just
\* persisted.
C20_AsStated == Synced => DOMAIN library = PersistedIds

\* The secondary-metadata requests a step issues.
GamesdbRequested ==
    {net'[i].arg : i \in {j \in (Len(net) + 1)..Len(net') : net'[j].kind = "gamesdb"}}

\* C21 as stated: in every step an existing ApiInfoCache entry is left as it
\* is, an entry is added only with the payload of a successful
\* secondary-metadata fetch (a failed fetch adds none), and no
\* secondary-metadata request is issued for an identifier that has an entry.
C21_AsStated ==
    [][/\ \A id \in DOMAIN apiInfoCache :
            id \in DOMAIN apiInfoCache' /\ apiInfoCache'[id] = apiInfoCache[id]
       /\ \A id \in DOMAIN apiInfoCache' \ DOMAIN apiInfoCache :
            apiInfoCache'[id] # "empty"
       /\ GamesdbRequested \cap DOMAIN apiInfoCache = {}]_vars

\* How often page k was requested.
TimesRequested(k) == Cardinality({i \in 1..Len(loop.requested) : loop.requested[i] = k})

\* Pages are requested in ascending order, and a page is requested only
\* after the response for the page before (or its failure) has arrived, so
\* at most one request is outstanding.
OneAtATime ==
    /\ \A i \in 1..Len(loop.requested) : loop.requested[i] = i
    /\ Len(loop.answered) \in {Len(loop.requested) - 1, Len(loop.requested)}
    /\ \A i \in 1..Len(loop.answered) : loop.answered[i] = loop.requested[i]

PageLoopOver == loop.pc \in {"merge", "returned", "rejected"}

\* C22 as stated: pages are requested one at a time in ascending order, and
\* by the end of the page loop each page 1..totalPages (as the page-1
\* response reported it) has been requested exactly once.
C22_AsStated ==
    /\ OneAtATime
    /\ PageLoopOver => \A k \in 1..loop.totalPages : TimesRequested(k) = 1

\* C22: pages are requested one at a time in ascending order and none twice.
\* When the page-1 response has products and no request fails, the pages
\* requested are page 1 and each page up to totalPages, once each. A failing
\* request for page k ends the call, so the pages requested are 1..k; a
\* page-1 response without products ends the loop after page 1.
C22_SequentialUntilFailure ==
    /\ OneAtATime
    /\ loop.pc = "merge" =>
          IF loop.numberOfPages = loop.totalPages
          THEN /\ \A k \in 1..loop.totalPages : TimesRequested(k) = 1
               /\ Len(loop.requested) = IF loop.totalPages < 1 THEN 1 ELSE loop.totalPages
          ELSE loop.requested = <<1>>
    /\ loop.pc = "returned" => loop.requested = <<1>>
    /\ loop.pc = "rejected" =>
          /\ Len(loop.requested) = loop.page
          /\ loop.page \in 2..loop.totalPages

\* The page loop ended after every one of the MaxPages pages was requested
\* and answered.
C22_Witness ==
    /\ loop.pc = "merge"
    /\ loop.totalPages = MaxPages
    /\ loop.answered = [i \in 1..MaxPages |-> i]

\* Both overlapping calls have run to completion.
RaceOver == pc = "idle" /\ SyncStarted /\ gi.pc = "idle" /\ gi.caller # "none"

\* C23: when a sync() and an importGame(X, path), interleaved at their
\* awaits, have both run to completion, the Installed Store and the installed
\* map hold the imported record for X, and the library record of X has
\* is_installed = true and that record as install.
C23_ImportSurvivesSync ==
    RaceOver /\ gi.caller = "importGame" =>
        LET X == gi.appName
            imported == InstalledInfo(gi.path)
        IN /\ X \in DOMAIN installedStore /\ installedStore[X] = imported
           /\ X \in DOMAIN installedGames /\ installedGames[X] = imported
           /\ X \in DOMAIN library
           /\ library[X].is_installed
           /\ library[X].install = imported

\* importGame(X) ran its tail while a sync() that fetched X was suspended,
\* and the sync() completed after it.
C23_Witness ==
    /\ RaceOver
    /\ gi.caller = "importGame"
    /\ ret = [op |-> "sync", result |-> "completed"]
    /\ gi.appName \in SeqToSet(Fetched)
    /\ gi.path = "p2"
    /\ gi.appName \notin DOMAIN pre.installedStore

\* C24 as stated: when a sync() that fetched appName and a
\* getInstallInfo(appName), interleaved at their awaits, have both run to
\* completion, the persisted catalog record and the library record of appName
\* carry the folder name the external tool reported.
C24_AsStated ==
    RaceOver /\ gi.caller = "getInstallInfo" /\ gi.appName \in SeqToSet(Fetched) =>
        LET appName == gi.appName
            idx == FindIndex(libGames, appName)
        IN /\ idx # 0
           /\ libGames[idx].folder_name = ToolFolder
           /\ library[appName].folder_name = ToolFolder

\* What runGogdlCommand returns for a stream whose whole output arrives as
\* one chunk.
InOneChunk(output) == JoinWith(<<Trim(output)>>, Newline)

\* C25 as stated: the stdout and stderr strings of the result depend on the
\* child's output only, not on its split into chunks: whatever the chunks
\* were, the result is what the same output gives when it arrives as one
\* chunk.
C25_AsStated ==
    (run.pc = "child" /\ run.events # <<>> /\ run.events[1] = "close") =>
        /\ run.outer.state = "fulfilled"
        /\ run.outer.value[1].stdout =
              InOneChunk(Flatten(ChunksOf(run.arrived, {"stdout"})))
        /\ run.outer.value[1].stderr =
              InOneChunk(Flatten(ChunksOf(run.arrived, {"stderr"})))

\* C26 as stated: a non-linux title recorded by importGame() is not reported
\* as updateable by a check that the metadata server answers, whatever the
\* server's etag: nothing changed on the server since the import.
C26_AsStated ==
    \A k \in CheckedTitles :
        (upd.installed[k] = Imported("windows") /\ ~upd.checks[k].failed) =>
            ~Updateable(k)

\* C27 as stated: every writeConfig([appName, settings]) the screen issues
\* comes after the answer to 'requestSettings' for that appName has been
\* applied since the mount or the last change of appName, and carries
\* settings loaded from that appName's persisted settings (edited or not).
C27_AsStated ==
    \A i \in 1..Len(scr.writes) :
        /\ scr.writes[i].applied
        /\ scr.writes[i].settings.from = scr.writes[i].appName

====
